---- MODULE Spec2Model ----
(***************************************************************************)
(* State-machine model of ratatui-explorer's FileExplorer                  *)
(* (src/src/file_explorer.rs) over a LocalFileSystem-like lister           *)
(* (src/src/filesystem/local.rs).                                          *)
(*                                                                         *)
(* Encoding.                                                               *)
(*   - A string is a sequence of byte values ("../" is <<46, 46, 47>>), so *)
(*     to_lowercase, contains and the byte-wise String ordering are        *)
(*     computed, not assumed.                                              *)
(*   - A path is the sequence of its components (the root "/" is <<>>).    *)
(*   - Option<T> is a sequence of length 0 (None) or 1 (Some(x)).          *)
(*   - Vec indices are 0-based as in the source: element i of a Vec v is   *)
(*     v[i + 1].                                                           *)
(*   - An async handler is split at its .await points: the action that     *)
(*     starts it runs the code up to the first await, ReadDirReturns and   *)
(*     DeleteReturns run the code from the await to the next await or to   *)
(*     the return, and Dropped is the future being dropped at the await.   *)
(***************************************************************************)
EXTENDS Integers, Sequences, FiniteSets, TLC

VARIABLES
    cwd,             \* FileExplorer.cwd
    files,           \* FileExplorer.files
    filtered_files,  \* FileExplorer.filtered_files : Vec<(usize, File)>
    show_hidden,     \* FileExplorer.show_hidden
    selected,        \* FileExplorer.selected
    search_filter,   \* FileExplorer.search_filter : Option<String>
    scroll_offset,   \* FileExplorer.scroll_offset
    selected_paths,  \* FileExplorer.selected_paths
    dirs,            \* the directories of the disk (never changed by the explorer)
    disk,            \* the regular files that exist on the disk
    pc,              \* "idle", "read_dir", "delete" (a pending await) or "panicked"
    call,            \* the locals of the handler that is suspended at an await
    last,            \* the command last started and how it ended; arg is its argument,
                     \* for a movement the filtered_selected_idx() it started from
    pre,             \* the explorer's fields when that command started
    failures,        \* lister failures and dropped futures so far
    prior,           \* the state from which the command before the last one started
    lister,          \* one call of LocalFileSystem::read_dir, entry by entry
    failed           \* the previous command and its start state, when its listing failed

explorer == <<cwd, files, filtered_files, show_hidden, selected, search_filter,
              scroll_offset, selected_paths>>
vars == <<cwd, files, filtered_files, show_hidden, selected, search_filter,
          scroll_offset, selected_paths, dirs, disk, pc, call, last, pre, failures,
          prior, lister, failed>>

\* ------------------------------------------------------------------ bounds

\* Lister failures and dropped futures allowed in one behaviour: a call that can
\* succeed fails, a future is dropped, or set_cwd is given a path that cannot be
\* listed, only while fewer than this many have happened.
MaxFailures == 1

\* Number of sub-directories of the root of the wide disk.
WideCount == 15

\* The resolution of the lister's clock: ticks in one second.
TicksPerSecond == 2

\* ------------------------------------------------------------------ Option

None == <<>>
Some(x) == <<x>>
IsSome(o) == o # <<>>
Unwrap(o) == o[1]

\* ------------------------------------------------------------------ strings

Slash == <<47>>
ParentName == <<46, 46, 47>>                 \* "../"
DotDot == <<46, 46>>                         \* ".."

\* str::to_lowercase on ASCII bytes
ToLowercase(s) == [i \in 1..Len(s) |-> IF s[i] >= 65 /\ s[i] <= 90 THEN s[i] + 32 ELSE s[i]]

\* str::contains(needle)
Contains(h, n) == \E k \in 0..(Len(h) - Len(n)) : \A j \in 1..Len(n) : h[k + j] = n[j]

\* String's Ord: byte-wise lexicographic, a proper prefix is smaller
StrLess(a, b) ==
    \/ /\ Len(a) < Len(b)
       /\ \A j \in 1..Len(a) : a[j] = b[j]
    \/ \E k \in 1..Len(a) :
          /\ k <= Len(b)
          /\ a[k] < b[k]
          /\ \A j \in 1..(k - 1) : a[j] = b[j]

\* ------------------------------------------------------------------ paths

Root == <<>>

\* Path::parent
PathParent(p) == IF p = <<>> THEN None ELSE Some(SubSeq(p, 1, Len(p) - 1))

\* Path::file_name: None for the root and for a path that ends in ".."
PathFileName(p) == IF p = <<>> \/ p[Len(p)] = DotDot THEN None ELSE Some(p[Len(p)])

\* DirEntry::path: the directory path as given, joined with the entry's name
PathJoin(p, c) == Append(p, c)

\* ------------------------------------------------------------------ the disk

\* Component names.  "Doc", ".g" (hidden), "in", "r.d"
NDoc == <<68, 111, 99>>
NDotG == <<46, 103>>
NIn == <<105, 110>>
NRd == <<114, 46, 100>>
NMissing == <<122, 122>>                     \* "zz": on no disk
NR == <<114>>                                \* "r": a proper prefix of "r.d"

\* The small disk:   /Doc/   /Doc/in/   /Doc/r.d   /.g/
SmallDirs == {Root, <<NDoc>>, <<NDoc, NIn>>, <<NDotG>>}
SmallFiles == {<<NDoc, NRd>>}

\* The bare disk:   /.g/   /.g/r.d    (nothing under the root but a hidden directory)
BareDirs == {Root, <<NDotG>>}
BareFiles == {<<NDotG, NRd>>}

\* The wide disk: WideCount empty directories "a", "db", "dc", ... and the file
\* "f" under the root.
WideName(i) == IF i = 1 THEN <<97>> ELSE <<100, 96 + i>>
WideDirs == {Root} \cup {<<WideName(i)>> : i \in 1..WideCount}
NF == <<102>>                                \* "f"
WideFiles == {<<NF>>}

\* The directory a path names: ".." steps to the parent (the root is its own).
RECURSIVE Resolve(_)
Resolve(p) ==
    IF p = <<>> THEN <<>>
    ELSE LET r == Resolve(SubSeq(p, 1, Len(p) - 1))
             c == p[Len(p)]
         IN  IF c = DotDot
             THEN (IF r = <<>> THEN <<>> ELSE SubSeq(r, 1, Len(r) - 1))
             ELSE Append(r, c)

\* The names directly under directory d (d resolved).
Children(d, ds, fs) ==
    {q[Len(q)] : q \in {x \in ds \cup fs : Len(x) = Len(d) + 1 /\ SubSeq(x, 1, Len(d)) = d}}

\* One FileEntry, as LocalFileSystem::read_dir builds it for entry c of path p.
\* A FileEntry and the File made from it are records of the fields the commands
\* read (name, path, is_dir, is_hidden); size, modified, permissions and
\* symlink_target are copied through and read by no command.
MakeEntry(p, c, ds) ==
    LET is_dir == Append(Resolve(p), c) \in ds
    IN  [name      |-> IF is_dir THEN c \o Slash ELSE c,
         path      |-> PathJoin(p, c),
         is_dir    |-> is_dir,
         is_hidden |-> c[1] = 46]

\* A name without the "/" that directory entries carry.
BareName(e) == IF e.is_dir THEN SubSeq(e.name, 1, Len(e.name) - 1) ELSE e.name

\* The comparator as it would be if it compared the names without the "/" of
\* directories.
EntryLessBare(a, b) ==
    IF a.is_dir /\ ~b.is_dir THEN TRUE
    ELSE IF ~a.is_dir /\ b.is_dir THEN FALSE
    ELSE StrLess(BareName(a), BareName(b))

\* The comparator of entries.sort_by: Less iff a sorts before b.
EntryLess(a, b) ==
    IF a.is_dir /\ ~b.is_dir THEN TRUE
    ELSE IF ~a.is_dir /\ b.is_dir THEN FALSE
    ELSE StrLess(a.name, b.name)

\* entries.sort_by(...) applied to the entries read (their names are distinct).
RECURSIVE SortEntries(_)
SortEntries(S) ==
    IF S = {} THEN <<>>
    ELSE LET m == CHOOSE x \in S : \A y \in S \ {x} : EntryLess(x, y)
         IN  <<m>> \o SortEntries(S \ {m})

\* Whether tokio::fs::read_dir(path) succeeds on this disk: the path is walked
\* component by component, and each prefix has to name a directory.
ReadDirOk(p, ds) == \A k \in 0..Len(p) : Resolve(SubSeq(p, 1, k)) \in ds

\* LocalFileSystem::read_dir(path), when it succeeds.
ReadDir(p, ds, fs) ==
    SortEntries({MakeEntry(p, c, ds) : c \in Children(Resolve(p), ds, fs)})

\* Whether tokio::fs::remove_file(path) succeeds on this disk.
DeleteOk(p, fs) == Resolve(p) \in fs

\* ------------------------------------------------------------------ LocalFileSystem::read_dir, entry by entry

\* `Duration::from_secs(2)` around each per-entry operation and
\* `Duration::from_secs(5)` around the whole listing, in ticks.
OpTimeout == 2 * TicksPerSecond
ListingTimeout == 5 * TicksPerSecond

\* What one filesystem operation on an entry does when left alone: its result
\* and the ticks it takes.
Fast == [res |-> "ok", ticks |-> 0]
Slow == [res |-> "ok", ticks |-> OpTimeout - 1]
Fails == [res |-> "err", ticks |-> 0]
Hangs == [res |-> "ok", ticks |-> 2 * OpTimeout]

\* tokio::time::timeout(Duration::from_secs(2), op)
TimeoutOp(o) ==
    IF o.ticks >= OpTimeout THEN [res |-> "elapsed", ticks |-> OpTimeout] ELSE o

\* The directory entries the operating system can hand to read_dir.  own_dir
\* is what the entry itself is (never a directory for a symbolic link),
\* followed_dir what it is once links are followed; file_type, read_link and
\* metadata are the operations read_dir may run on it.  Fields that no run can
\* read are kept at one value.
RawKinds ==
    {k \in [is_symlink : BOOLEAN, own_dir : BOOLEAN, followed_dir : BOOLEAN,
            file_type : {Fast, Slow, Fails, Hangs},
            read_link : {Fast, Fails, Hangs},
            metadata : {Fast, Fails, Hangs}] :
        /\ k.is_symlink => ~k.own_dir
        /\ ~k.is_symlink => (k.followed_dir = k.own_dir /\ k.read_link = Fast)
        /\ k.file_type \in {Fails, Hangs}
              => (~k.is_symlink /\ ~k.own_dir /\ k.metadata = Fast)
        /\ k.metadata \in {Fails, Hangs} => (~k.own_dir /\ ~k.followed_dir)}

\* A raw entry: a kind under a name; a link's target is "/Doc".
RawEntry(name, k) ==
    [name |-> name, target |-> <<NDoc>>, is_symlink |-> k.is_symlink,
     own_dir |-> k.own_dir, followed_dir |-> k.followed_dir,
     file_type |-> k.file_type, read_link |-> k.read_link, metadata |-> k.metadata]

\* The directories read: none, one or two entries named "in", "r", "r.d" or
\* ".g".
RawNames == {NIn, NR, NRd, NDotG}
RawListings ==
    {<<>>}
    \cup {<<RawEntry(n, k)>> : n \in RawNames, k \in RawKinds}
    \cup {<<RawEntry(n[1], k1), RawEntry(n[2], k2)>> :
             n \in {m \in RawNames \X RawNames : m[1] # m[2]},
             k1 \in RawKinds, k2 \in RawKinds}

\* The directory whose listing the lister model reads: "/Doc".
ListedPath == <<NDoc>>

\* The loop body as it would be if it took a symbolic link's directory flag
\* from the link itself.
ReadEntryOwn(e) ==
    LET ft == TimeoutOp(e.file_type)
        rl == IF e.is_symlink THEN TimeoutOp(e.read_link) ELSE Fast
        md == TimeoutOp(e.metadata)
        is_dir == e.own_dir
    IN  IF ft.res # "ok" THEN [ticks |-> ft.ticks, entry |-> None]
        ELSE IF md.res # "ok"
        THEN [ticks |-> ft.ticks + rl.ticks + md.ticks, entry |-> None]
        ELSE [ticks |-> ft.ticks + rl.ticks + md.ticks,
              entry |-> Some([name |-> IF is_dir THEN e.name \o Slash ELSE e.name,
                              path |-> PathJoin(ListedPath, e.name),
                              is_dir |-> is_dir,
                              is_hidden |-> e.name[1] = 46,
                              is_symlink |-> e.is_symlink,
                              symlink_target |-> IF e.is_symlink /\ rl.res = "ok"
                                                 THEN Some(e.target) ELSE None])]

\* The body of the `while let Some(entry)` loop for raw entry e: the ticks it
\* takes and the FileEntry it pushes, if any.
ReadEntry(e) ==
    LET ft == TimeoutOp(e.file_type)
        rl == IF e.is_symlink THEN TimeoutOp(e.read_link) ELSE Fast
        md == TimeoutOp(e.metadata)
        is_dir == IF e.is_symlink THEN e.followed_dir ELSE e.own_dir
    IN  IF ft.res # "ok" THEN [ticks |-> ft.ticks, entry |-> None]
        ELSE IF md.res # "ok"
        THEN [ticks |-> ft.ticks + rl.ticks + md.ticks, entry |-> None]
        ELSE [ticks |-> ft.ticks + rl.ticks + md.ticks,
              entry |-> Some([name |-> IF is_dir THEN e.name \o Slash ELSE e.name,
                              path |-> PathJoin(ListedPath, e.name),
                              is_dir |-> is_dir,
                              is_hidden |-> e.name[1] = 46,
                              is_symlink |-> e.is_symlink,
                              symlink_target |-> IF e.is_symlink /\ rl.res = "ok"
                                                 THEN Some(e.target) ELSE None])]

\* The value of lister when no listing is followed entry by entry.
NoListing ==
    [raw |-> <<>>, next |-> 0, elapsed |-> 0, temp |-> <<>>, result |-> "none",
     entries |-> <<>>]

\* read_dir(ListedPath) has opened a directory holding the raw entries.
ListingOf(raw) ==
    [raw |-> raw, next |-> 0, elapsed |-> 0, temp |-> <<>>, result |-> "running",
     entries |-> <<>>]

\* ------------------------------------------------------------------ pure helpers of FileExplorer

\* Vec::swap_remove(i): element i is replaced by the last element.
SwapRemove(v, i) ==
    [k \in 1..(Len(v) - 1) |-> IF k = i + 1 THEN v[Len(v)] ELSE v[k]]

\* The predicate of the filter closure of compute_filtered_files.
FilterMatches(file, filter) ==
    Contains(ToLowercase(file.name), ToLowercase(filter))

\* iter().enumerate(): the (index, element) pairs of a Vec.
Enumerate(v) == [i \in 1..Len(v) |-> <<i - 1, v[i]>>]

\* compute_filtered_files as it would be if, without a search substring, it
\* numbered the entries from 1.
ComputeFilteredFilesFromOne(fl, filter) ==
    IF IsSome(filter)
    THEN SelectSeq(Enumerate(fl), LAMBDA pr : FilterMatches(pr[2], Unwrap(filter)))
    ELSE [k \in 1..Len(fl) |-> <<k, fl[k]>>]

\* FileExplorer::compute_filtered_files
ComputeFilteredFiles(fl, filter) ==
    IF IsSome(filter)
    THEN SelectSeq(Enumerate(fl), LAMBDA pr : FilterMatches(pr[2], Unwrap(filter)))
    ELSE Enumerate(fl)

\* FileExplorer::filtered_selected_idx: Iterator::position, the first 0-based
\* position of a pair whose original index is the stored selection.
FilteredSelectedIdx(ff, sel) ==
    IF \E i \in 1..Len(ff) : ff[i][1] = sel
    THEN Some((CHOOSE i \in 1..Len(ff) :
                  ff[i][1] = sel /\ \A j \in 1..(i - 1) : ff[j][1] # sel) - 1)
    ELSE None

\* Option::unwrap_or
UnwrapOr(o, d) == IF IsSome(o) THEN Unwrap(o) ELSE d

\* FileExplorer::selected_idx
SelectedIdx(ff, sel) == UnwrapOr(FilteredSelectedIdx(ff, sel), 0)

\* The File records that get_and_set_files builds from the entries read.
ToFiles(entries, hidden) ==
    SelectSeq(entries, LAMBDA e : hidden \/ ~e.is_hidden)

\* The synthetic parent entry of get_and_set_files.
ParentEntry(parent) ==
    [name |-> ParentName, path |-> parent, is_dir |-> TRUE, is_hidden |-> FALSE]

\* The installed Vec as it would be if the parent entry were pushed after the
\* entries read.
LoadedFilesParentLast(entries, dir, hidden) ==
    IF IsSome(PathParent(dir))
    THEN Append(ToFiles(entries, hidden), ParentEntry(Unwrap(PathParent(dir))))
    ELSE ToFiles(entries, hidden)

\* The Vec that get_and_set_files installs as self.files.
LoadedFiles(entries, dir, hidden) ==
    IF IsSome(PathParent(dir))
    THEN <<ParentEntry(Unwrap(PathParent(dir)))>> \o ToFiles(entries, hidden)
    ELSE ToFiles(entries, hidden)

\* usize::MAX as far as the model needs it: wrapping_sub's result is only ever
\* compared with a Vec length.
UsizeMax == 2147483647

\* usize::wrapping_sub
WrappingSub(a, b) == IF a >= b THEN a - b ELSE UsizeMax - (b - a) + 1

\* usize::saturating_sub
SaturatingSub(a, b) == IF a >= b THEN a - b ELSE 0

Min(a, b) == IF a <= b THEN a ELSE b

SCROLL_COUNT == 12

\* The new filtered position computed by each movement arm of handle(),
\* from the current filtered position p and the filtered length n > 0.
UpIdx(p, n) == Min(WrappingSub(p, 1), n - 1)
DownIdx(p, n) == (p + 1) % n
PageUpIdx(p, n) == SaturatingSub(p, SCROLL_COUNT)
\* PageDown as it would be if it wrapped around like Down does.
PageDownIdxWraps(p, n) == (p + SCROLL_COUNT) % n
PageDownIdx(p, n) == Min(p + SCROLL_COUNT, n - 1)

\* `if let Some((original_idx, _)) = self.filtered_files.get(i) { self.selected = *original_idx }`
SelectFiltered(ff, i, sel) == IF i < Len(ff) THEN ff[i + 1][1] ELSE sel

\* ------------------------------------------------------------------ inputs

\* Arguments of set_search_filter: None, "D", "." and "zz".
SearchFilters == {None, Some(<<68>>), Some(<<46>>), Some(NMissing)}

\* Arguments of set_cwd: "/", "/Doc", "/zz" (on no disk) and "/Doc/..".
CwdInputs == {Root, <<NDoc>>, <<NMissing>>, <<NDoc, DotDot>>}

\* Arguments of select_file: "../", "Doc/", "r.d" and "zz".
FileNames == {ParentName, NDoc \o Slash, NRd, NMissing}

\* ------------------------------------------------------------------ bookkeeping

\* The explorer's fields, as one record.
Snapshot ==
    [cwd |-> cwd, files |-> files, filtered_files |-> filtered_files,
     show_hidden |-> show_hidden, selected |-> selected,
     search_filter |-> search_filter, scroll_offset |-> scroll_offset,
     selected_paths |-> selected_paths]

\* The value of pre when no snapshot is kept.
NoSnapshot ==
    [cwd |-> Root, files |-> <<>>, filtered_files |-> <<>>,
     show_hidden |-> FALSE, selected |-> 0,
     search_filter |-> None, scroll_offset |-> 0,
     selected_paths |-> {}]

\* No handler is suspended.  lists and deletes count the calls of the lister's
\* read_dir and delete that the running command has made.
NoCall ==
    [op |-> "none", dir_name |-> None, file_path |-> Root, lists |-> 0, deletes |-> 0]

\* The commands whose start state is remembered for the command that follows.
Navigations == {"Left", "Right", "ToggleShowHidden"}

\* The value of prior when the previous command was not a navigation that
\* returned Ok.
NoPrior ==
    [op |-> "none", cwd |-> Root, files |-> <<>>, selected |-> 0,
     show_hidden |-> FALSE, search_filter |-> None]

\* The running command returned Ok: what the next command is to remember of it.
PriorOf(l, s) ==
    IF l.op \in Navigations
    THEN [op |-> l.op, cwd |-> s.cwd, files |-> s.files, selected |-> s.selected,
          show_hidden |-> s.show_hidden, search_filter |-> s.search_filter]
    ELSE NoPrior

\* The commands whose start state is remembered when their list call failed.
Retried == {"Left", "Right", "ToggleShowHidden", "set_cwd"}

\* The value of failed when the previous command did not fail in its list call.
NoFailed ==
    [op |-> "none", arg |-> None, cwd |-> Root, files |-> <<>>, selected |-> 0,
     show_hidden |-> FALSE, search_filter |-> None]

\* The running command returned the error of its list call: what the next
\* command is to remember of it.
FailedOf(l, s) ==
    IF l.op \in Retried
    THEN [op |-> l.op, arg |-> l.arg, cwd |-> s.cwd, files |-> s.files,
          selected |-> s.selected, show_hidden |-> s.show_hidden,
          search_filter |-> s.search_filter]
    ELSE NoFailed

\* A command starts: remember the state it started from.
Started(op, arg) ==
    /\ pre' = Snapshot
    /\ UNCHANGED <<prior, failed>>
    /\ last' = [op |-> op, arg |-> arg, result |-> "pending", cause |-> "none"]

\* The running command ends.  The snapshot is kept after a command that did not
\* return Ok, for the statements about what such a command leaves behind.
Ended(result, cause) ==
    /\ last' = [last EXCEPT !.result = result, !.cause = cause]
    /\ pre' = IF result = "ok" THEN NoSnapshot ELSE pre
    /\ prior' = IF result = "ok" THEN PriorOf(last, pre) ELSE NoPrior
    /\ failed' = IF result = "err" /\ cause = "read_dir"
                 THEN FailedOf(last, pre) ELSE NoFailed

\* A command that starts and ends in one step.
Ran(op, arg, result, cause) ==
    /\ pre' = NoSnapshot
    /\ prior' = NoPrior
    /\ failed' = NoFailed
    /\ last' = [op |-> op, arg |-> arg, result |-> result, cause |-> cause]

Idle == pc = "idle"

\* What no explorer command touches.
EnvUnchanged == UNCHANGED <<dirs, disk, failures, lister>>

\* ------------------------------------------------------------------ handle(): movement

\* `self.filtered_selected_idx().unwrap_or(0)` of the movement arms.
CurrentFilteredIdx == UnwrapOr(FilteredSelectedIdx(filtered_files, selected), 0)

MoveFrame ==
    /\ UNCHANGED <<cwd, files, filtered_files, show_hidden, search_filter,
                   scroll_offset, selected_paths, pc, call>>
    /\ EnvUnchanged

HandleUp ==
    /\ Idle
    /\ selected' = IF filtered_files # <<>>
                   THEN SelectFiltered(filtered_files,
                                       UpIdx(CurrentFilteredIdx, Len(filtered_files)),
                                       selected)
                   ELSE selected
    /\ Ran("Up", FilteredSelectedIdx(filtered_files, selected), "ok", "none")
    /\ MoveFrame

\* Down as it would be if it left the selection alone when the stored
\* selection is not in the filtered view.
HandleDownStays ==
    /\ Idle
    /\ selected' = IF filtered_files # <<>>
                      /\ IsSome(FilteredSelectedIdx(filtered_files, selected))
                   THEN SelectFiltered(filtered_files,
                                       DownIdx(CurrentFilteredIdx, Len(filtered_files)),
                                       selected)
                   ELSE selected
    /\ Ran("Down", FilteredSelectedIdx(filtered_files, selected), "ok", "none")
    /\ MoveFrame

HandleDown ==
    /\ Idle
    /\ selected' = IF filtered_files # <<>>
                   THEN SelectFiltered(filtered_files,
                                       DownIdx(CurrentFilteredIdx, Len(filtered_files)),
                                       selected)
                   ELSE selected
    /\ Ran("Down", FilteredSelectedIdx(filtered_files, selected), "ok", "none")
    /\ MoveFrame

\* Home as it would be if it reset the selection on an empty view.
HandleHomeResets ==
    /\ Idle
    /\ selected' = IF filtered_files # <<>> THEN filtered_files[1][1] ELSE 0
    /\ Ran("Home", FilteredSelectedIdx(filtered_files, selected), "ok", "none")
    /\ MoveFrame

HandleHome ==
    /\ Idle
    /\ selected' = IF filtered_files # <<>> THEN filtered_files[1][1] ELSE selected
    /\ Ran("Home", FilteredSelectedIdx(filtered_files, selected), "ok", "none")
    /\ MoveFrame

HandleEnd ==
    /\ Idle
    /\ selected' = IF filtered_files # <<>>
                   THEN filtered_files[Len(filtered_files)][1] ELSE selected
    /\ Ran("End", FilteredSelectedIdx(filtered_files, selected), "ok", "none")
    /\ MoveFrame

HandlePageUp ==
    /\ Idle
    /\ selected' = IF filtered_files # <<>>
                   THEN SelectFiltered(filtered_files,
                                       PageUpIdx(CurrentFilteredIdx, Len(filtered_files)),
                                       selected)
                   ELSE selected
    /\ Ran("PageUp", FilteredSelectedIdx(filtered_files, selected), "ok", "none")
    /\ MoveFrame

HandlePageDown ==
    /\ Idle
    /\ selected' = IF filtered_files # <<>>
                   THEN SelectFiltered(filtered_files,
                                       PageDownIdx(CurrentFilteredIdx, Len(filtered_files)),
                                       selected)
                   ELSE selected
    /\ Ran("PageDown", FilteredSelectedIdx(filtered_files, selected), "ok", "none")
    /\ MoveFrame

\* Input::None as it would be if it refreshed the listing.
HandleNoneReloads ==
    /\ Idle
    /\ pc' = "read_dir"
    /\ call' = [op |-> "None", dir_name |-> None, file_path |-> Root,
                lists |-> 1, deletes |-> 0]
    /\ Started("None", None)
    /\ UNCHANGED explorer
    /\ EnvUnchanged

HandleNone ==
    /\ Idle
    /\ Ran("None", None, "ok", "none")
    /\ UNCHANGED explorer
    /\ UNCHANGED <<pc, call>>
    /\ EnvUnchanged

\* ------------------------------------------------------------------ handle(): Left, Right, ToggleShowHidden, Delete

\* `self.files[self.selected]` panics when the index is out of bounds.
IndexPanics == selected >= Len(files)

Panicked(op, arg) ==
    /\ pc' = "panicked"
    /\ Ran(op, arg, "panic", "index")
    /\ UNCHANGED explorer
    /\ UNCHANGED call
    /\ EnvUnchanged

\* A command that returns Ok(()) without having done anything.
Skipped(op, arg) ==
    /\ Ran(op, arg, "ok", "none")
    /\ UNCHANGED explorer
    /\ UNCHANGED <<pc, call>>
    /\ EnvUnchanged

\* The handler reaches `self.get_and_set_files().await`.
AwaitReadDir(op, arg, dir_name) ==
    /\ pc' = "read_dir"
    /\ call' = [op |-> op, dir_name |-> dir_name, file_path |-> Root,
                lists |-> 1, deletes |-> 0]
    /\ Started(op, arg)
    /\ EnvUnchanged

\* The remembered name as it would be without the "/" that directory entries
\* carry.
CurrentDirNameBare(dir) ==
    IF IsSome(PathFileName(dir)) THEN Some(Unwrap(PathFileName(dir))) ELSE None

\* The name Input::Left remembers: the current directory's name and "/".
CurrentDirName(dir) ==
    IF IsSome(PathFileName(dir)) THEN Some(Unwrap(PathFileName(dir)) \o Slash) ELSE None

HandleLeft ==
    /\ Idle
    /\ IF IsSome(PathParent(cwd))
       THEN /\ cwd' = Unwrap(PathParent(cwd))
            /\ UNCHANGED <<files, filtered_files, show_hidden, selected, search_filter,
                           scroll_offset, selected_paths>>
            /\ AwaitReadDir("Left", None, CurrentDirName(cwd))
       ELSE Skipped("Left", None)

\* Right as it would be if it recomputed the filtered view after swap_remove,
\* before the reload is awaited.
HandleRightRefilters ==
    /\ Idle
    /\ IF IndexPanics THEN Panicked("Right", None)
       ELSE IF files[selected + 1].is_dir
       THEN /\ cwd' = files[selected + 1].path
            /\ files' = SwapRemove(files, selected)
            /\ filtered_files' = ComputeFilteredFiles(SwapRemove(files, selected), search_filter)
            /\ UNCHANGED <<show_hidden, selected, search_filter,
                           scroll_offset, selected_paths>>
            /\ AwaitReadDir("Right", None, None)
       ELSE Skipped("Right", None)

\* Right as it would be if it entered the selected entry whatever it is.
HandleRightAny ==
    /\ Idle
    /\ IF IndexPanics THEN Panicked("Right", None)
       ELSE /\ cwd' = files[selected + 1].path
            /\ files' = SwapRemove(files, selected)
            /\ UNCHANGED <<filtered_files, show_hidden, selected, search_filter,
                           scroll_offset, selected_paths>>
            /\ AwaitReadDir("Right", None, None)

HandleRight ==
    /\ Idle
    /\ IF IndexPanics THEN Panicked("Right", None)
       ELSE IF files[selected + 1].is_dir
       THEN /\ cwd' = files[selected + 1].path
            /\ files' = SwapRemove(files, selected)
            /\ UNCHANGED <<filtered_files, show_hidden, selected, search_filter,
                           scroll_offset, selected_paths>>
            /\ AwaitReadDir("Right", None, None)
       ELSE Skipped("Right", None)

\* set_show_hidden as it would be if it scrolled back to the top.
ShowHiddenBodyScrollsUp(op, b) ==
    /\ show_hidden' = b
    /\ scroll_offset' = 0
    /\ UNCHANGED <<cwd, files, filtered_files, selected, search_filter,
                   selected_paths>>
    /\ AwaitReadDir(op, Some(b), None)

\* The body of set_show_hidden up to its await, for either caller.
ShowHiddenBody(op, b) ==
    /\ show_hidden' = b
    /\ UNCHANGED <<cwd, files, filtered_files, selected, search_filter,
                   scroll_offset, selected_paths>>
    /\ AwaitReadDir(op, Some(b), None)

HandleToggleShowHidden ==
    /\ Idle
    /\ ShowHiddenBody("ToggleShowHidden", ~show_hidden)

\* Delete as it would be if it deleted the selected entry whatever it is.
HandleDeleteAny ==
    /\ Idle
    /\ IF IndexPanics THEN Panicked("Delete", None)
       ELSE /\ pc' = "delete"
            /\ call' = [op |-> "Delete", dir_name |-> None,
                        file_path |-> files[selected + 1].path,
                        lists |-> 0, deletes |-> 1]
            /\ Started("Delete", None)
            /\ UNCHANGED explorer
            /\ EnvUnchanged

HandleDelete ==
    /\ Idle
    /\ IF IndexPanics THEN Panicked("Delete", None)
       ELSE IF ~files[selected + 1].is_dir
       THEN /\ pc' = "delete"
            /\ call' = [op |-> "Delete", dir_name |-> None,
                        file_path |-> files[selected + 1].path,
                        lists |-> 0, deletes |-> 1]
            /\ Started("Delete", None)
            /\ UNCHANGED explorer
            /\ EnvUnchanged
       ELSE Skipped("Delete", None)

\* ------------------------------------------------------------------ setters

\* set_cwd as it would be if it refused a path that cannot be listed before
\* touching cwd.
SetCwdChecked ==
    /\ Idle
    /\ \E p \in CwdInputs :
          IF ReadDirOk(p, dirs)
          THEN /\ cwd' = p
               /\ AwaitReadDir("set_cwd", Some(p), None)
          ELSE /\ cwd' = cwd
               /\ pc' = pc
               /\ call' = call
               /\ Ran("set_cwd", Some(p), "err", "read_dir")
               /\ EnvUnchanged
    /\ UNCHANGED <<files, filtered_files, show_hidden, selected, search_filter,
                   scroll_offset, selected_paths>>

SetCwd ==
    /\ Idle
    /\ \E p \in CwdInputs :
          /\ ReadDirOk(p, dirs) \/ failures < MaxFailures
          /\ cwd' = p
          /\ AwaitReadDir("set_cwd", Some(p), None)
    /\ UNCHANGED <<files, filtered_files, show_hidden, selected, search_filter,
                   scroll_offset, selected_paths>>

\* set_show_hidden as it would be if it returned at once when the flag already
\* has the value asked for.
SetShowHiddenIfChanged ==
    /\ Idle
    /\ \E b \in BOOLEAN :
          IF b = show_hidden
          THEN Skipped("set_show_hidden", Some(b))
          ELSE ShowHiddenBody("set_show_hidden", b)

SetShowHidden ==
    /\ Idle
    /\ \E b \in BOOLEAN : ShowHiddenBody("set_show_hidden", b)

\* set_search_filter as it would be if it reset the selection.
SetSearchFilterResetsSelection ==
    /\ Idle
    /\ \E f \in SearchFilters :
          /\ search_filter' = f
          /\ filtered_files' = ComputeFilteredFiles(files, f)
          /\ Ran("set_search_filter", Some(f), "ok", "none")
    /\ selected' = 0
    /\ UNCHANGED <<cwd, files, show_hidden, scroll_offset, selected_paths,
                   pc, call>>
    /\ EnvUnchanged

SetSearchFilter ==
    /\ Idle
    /\ \E f \in SearchFilters :
          /\ search_filter' = f
          /\ filtered_files' = ComputeFilteredFiles(files, f)
          /\ Ran("set_search_filter", Some(f), "ok", "none")
    /\ UNCHANGED <<cwd, files, show_hidden, selected, scroll_offset, selected_paths,
                   pc, call>>
    /\ EnvUnchanged

\* set_selected_idx as it would be if it clamped an index that is too large.
SetSelectedIdxClamps ==
    /\ Idle
    /\ \E i \in 0..(Len(filtered_files) + 1) :
          /\ selected' = IF filtered_files # <<>>
                         THEN SelectFiltered(filtered_files,
                                             Min(i, Len(filtered_files) - 1), selected)
                         ELSE selected
          /\ Ran("set_selected_idx", Some(i), "ok", "none")
          /\ UNCHANGED <<cwd, files, filtered_files, show_hidden, search_filter,
                         scroll_offset, selected_paths, pc, call>>
          /\ EnvUnchanged

SetSelectedIdx ==
    /\ Idle
    /\ \E i \in 0..(Len(filtered_files) + 1) :
          IF i < Len(filtered_files)
          THEN /\ selected' = SelectFiltered(filtered_files, i, selected)
               /\ Ran("set_selected_idx", Some(i), "ok", "none")
               /\ UNCHANGED <<cwd, files, filtered_files, show_hidden, search_filter,
                              scroll_offset, selected_paths, pc, call>>
               /\ EnvUnchanged
          ELSE /\ pc' = "panicked"
               /\ Ran("set_selected_idx", Some(i), "panic", "assert")
               /\ UNCHANGED explorer
               /\ UNCHANGED call
               /\ EnvUnchanged

\* select_file's search as it would be if it looked in the filtered view.
FindFileInView(fl, filename) ==
    IF \E i \in 1..Len(filtered_files) : filtered_files[i][2].name = filename
    THEN Some((CHOOSE i \in 1..Len(filtered_files) :
                  /\ filtered_files[i][2].name = filename
                  /\ \A j \in 1..(i - 1) : filtered_files[j][2].name # filename) - 1)
    ELSE None

\* FileExplorer::select_file's search: the index of the first file so named.
FindFile(fl, filename) ==
    IF \E i \in 1..Len(fl) : fl[i].name = filename
    THEN Some((CHOOSE i \in 1..Len(fl) :
                  fl[i].name = filename /\ \A j \in 1..(i - 1) : fl[j].name # filename) - 1)
    ELSE None

SelectFile ==
    /\ Idle
    /\ \E filename \in FileNames :
          /\ selected' = UnwrapOr(FindFile(files, filename), selected)
          /\ Ran("select_file", Some(filename),
                 IF IsSome(FindFile(files, filename)) THEN "true" ELSE "false", "none")
    /\ UNCHANGED <<cwd, files, filtered_files, show_hidden, search_filter,
                   scroll_offset, selected_paths, pc, call>>
    /\ EnvUnchanged

\* ------------------------------------------------------------------ marked paths and rendering

\* Arguments of set_selected_paths: no path, and "/.g/r.d".
MarkSets == {{}, {<<NDotG, NRd>>}}

SetSelectedPaths ==
    /\ Idle
    /\ \E paths \in MarkSets :
          /\ selected_paths' = paths
          /\ Ran("set_selected_paths", Some(paths), "ok", "none")
    /\ UNCHANGED <<cwd, files, filtered_files, show_hidden, selected, search_filter,
                   scroll_offset, pc, call>>
    /\ EnvUnchanged

\* The offsets a rendering leaves in the table state: the top, and one row down.
Offsets == {0, 1}

\* FileExplorer::is_file_selected, on the marked set sp.
IsFileSelected(sp, file) == file.path \in sp

\* StatefulRenderer::render: current() indexes files with the stored selection,
\* and after the table is drawn the offset the table state ends with (computed
\* by the table widget from the area and the selected row) is stored.
Render ==
    /\ Idle
    /\ IF IndexPanics THEN Panicked("render", None)
       ELSE /\ \E offset \in Offsets : scroll_offset' = offset
            /\ Ran("render", None, "ok", "none")
            /\ UNCHANGED <<cwd, files, filtered_files, show_hidden, selected,
                           search_filter, selected_paths, pc, call>>
            /\ EnvUnchanged

\* ------------------------------------------------------------------ the lister's loop

\* Everything but the lister.
ListerFrame ==
    /\ UNCHANGED explorer
    /\ UNCHANGED <<dirs, disk, pc, call, last, pre, failures, prior, failed>>

\* One turn of the `while let Some(entry)` loop, or the 5-second timeout that
\* wraps the loop firing during it.  When the turn ends on the very tick of
\* the timeout either may win.
ListerNextEntry ==
    /\ lister.result = "running"
    /\ lister.next < Len(lister.raw)
    /\ LET r == ReadEntry(lister.raw[lister.next + 1])
           now == lister.elapsed + r.ticks
       IN  \/ /\ now <= ListingTimeout
              /\ lister' = [lister EXCEPT !.next = @ + 1,
                                          !.elapsed = now,
                                          !.temp = @ \o r.entry]
           \/ /\ now >= ListingTimeout
              /\ lister' = [lister EXCEPT !.elapsed = ListingTimeout,
                                          !.temp = <<>>,
                                          !.result = "timed_out"]
    /\ ListerFrame

\* next_entry() returned None: the entries read are sorted and returned.
ListerReturns ==
    /\ lister.result = "running"
    /\ lister.next = Len(lister.raw)
    /\ lister' = [lister EXCEPT
                    !.result = "ok",
                    !.entries = SortEntries({lister.temp[i] : i \in 1..Len(lister.temp)})]
    /\ ListerFrame

\* ------------------------------------------------------------------ the awaits

\* The delete's return as it would be if the listing were refreshed after a
\* failed delete too.
DeleteReturnsReloads ==
    /\ pc = "delete"
    /\ \/ /\ DeleteOk(call.file_path, disk)
          /\ disk' = disk \ {Resolve(call.file_path)}
          /\ pc' = "read_dir"
          /\ call' = [call EXCEPT !.lists = @ + 1]
          /\ UNCHANGED <<last, pre, failures, prior, failed>>
       \/ /\ ~DeleteOk(call.file_path, disk) \/ failures < MaxFailures
          /\ failures' = Min(failures + 1, MaxFailures)
          /\ pc' = "read_dir"
          /\ call' = [call EXCEPT !.lists = @ + 1]
          /\ Ended("err", "delete")
          /\ UNCHANGED disk
    /\ UNCHANGED explorer
    /\ UNCHANGED <<dirs, lister>>

\* `self.filesystem.delete(&file_path).await?` of Input::Delete returns.
DeleteReturns ==
    /\ pc = "delete"
    /\ \/ /\ DeleteOk(call.file_path, disk)
          /\ disk' = disk \ {Resolve(call.file_path)}
          /\ pc' = "read_dir"
          /\ call' = [call EXCEPT !.lists = @ + 1]
          /\ UNCHANGED <<last, pre, failures, prior, failed>>
       \/ /\ ~DeleteOk(call.file_path, disk) \/ failures < MaxFailures
          /\ failures' = Min(failures + 1, MaxFailures)
          /\ pc' = "idle"
          /\ call' = NoCall
          /\ Ended("err", "delete")
          /\ UNCHANGED disk
    /\ UNCHANGED explorer
    /\ UNCHANGED <<dirs, lister>>

\* The selection after a reload as it would be if Left did not look for the
\* remembered name.
SelectionAfterReloadFirst(c, fl, sel) ==
    IF c.op = "Delete"
    THEN (IF sel >= Len(fl) /\ fl # <<>> THEN Len(fl) - 1 ELSE sel)
    ELSE 0

\* The selection each caller of get_and_set_files sets after it returned Ok.
SelectionAfterReload(c, fl, sel) ==
    IF c.op = "Left"
    THEN (IF IsSome(c.dir_name) THEN UnwrapOr(FindFile(fl, Unwrap(c.dir_name)), 0) ELSE 0)
    ELSE IF c.op = "Delete"
    THEN (IF sel >= Len(fl) /\ fl # <<>> THEN Len(fl) - 1 ELSE sel)
    ELSE 0

\* The list call's return as it would be if get_and_set_files called read_dir a
\* second time after a first failure.
ReadDirReturnsRetries ==
    /\ pc = "read_dir"
    /\ \/ /\ ReadDirOk(cwd, dirs)
          /\ LET fl == LoadedFiles(ReadDir(cwd, dirs, disk), cwd, show_hidden)
             IN  /\ files' = fl
                 /\ filtered_files' = ComputeFilteredFiles(fl, search_filter)
                 /\ selected' = SelectionAfterReload(call, fl, selected)
          /\ Ended("ok", "none")
          /\ pc' = "idle"
          /\ call' = NoCall
          /\ UNCHANGED <<cwd, show_hidden, search_filter, scroll_offset, selected_paths,
                         failures>>
       \/ /\ ~ReadDirOk(cwd, dirs) \/ failures < MaxFailures
          /\ failures' = Min(failures + 1, MaxFailures)
          /\ IF call.lists < 2
             THEN /\ pc' = "read_dir"
                  /\ call' = [call EXCEPT !.lists = @ + 1]
                  /\ UNCHANGED <<last, pre, prior, failed>>
             ELSE /\ pc' = "idle"
                  /\ call' = NoCall
                  /\ Ended("err", "read_dir")
          /\ UNCHANGED explorer
    /\ UNCHANGED <<dirs, disk, lister>>

\* `self.filesystem.read_dir(..).await?` of get_and_set_files returns; on Ok the
\* rest of get_and_set_files and of its caller run.
ReadDirReturns ==
    /\ pc = "read_dir"
    /\ \/ /\ ReadDirOk(cwd, dirs)
          /\ LET fl == LoadedFiles(ReadDir(cwd, dirs, disk), cwd, show_hidden)
             IN  /\ files' = fl
                 /\ filtered_files' = ComputeFilteredFiles(fl, search_filter)
                 /\ selected' = SelectionAfterReload(call, fl, selected)
          /\ Ended("ok", "none")
          /\ UNCHANGED <<cwd, show_hidden, search_filter, scroll_offset, selected_paths,
                         failures>>
       \/ /\ ~ReadDirOk(cwd, dirs) \/ failures < MaxFailures
          /\ failures' = Min(failures + 1, MaxFailures)
          /\ Ended("err", "read_dir")
          /\ UNCHANGED explorer
    /\ pc' = "idle"
    /\ call' = NoCall
    /\ UNCHANGED <<dirs, disk, lister>>

\* The caller drops the handler's future while it is suspended at an await
\* (a select! or a timeout around handle()).
Dropped ==
    /\ pc \in {"read_dir", "delete"}
    /\ failures < MaxFailures
    /\ failures' = failures + 1
    /\ pc' = "idle"
    /\ call' = NoCall
    /\ Ended("dropped", pc)
    /\ UNCHANGED explorer
    /\ UNCHANGED <<dirs, disk, lister>>

\* ------------------------------------------------------------------ specifications

\* FileExplorer::with_fs(fs, initial_path) returned Ok on the given disk.
Constructed(initial_path, ds, fs) ==
    /\ dirs = ds
    /\ disk = fs
    /\ ReadDirOk(initial_path, ds)
    /\ cwd = initial_path
    /\ show_hidden = FALSE
    /\ files = LoadedFiles(ReadDir(initial_path, ds, fs), initial_path, FALSE)
    /\ filtered_files = ComputeFilteredFiles(files, None)
    /\ selected = 0
    /\ search_filter = None
    /\ scroll_offset = 0
    /\ selected_paths = {}
    /\ pc = "idle"
    /\ call = NoCall
    /\ last = [op |-> "with_fs", arg |-> Some(initial_path), result |-> "ok", cause |-> "none"]
    /\ pre = NoSnapshot
    /\ failures = 0
    /\ prior = NoPrior
    /\ failed = NoFailed

Init ==
    /\ \/ \E p \in {Root, <<NDoc>>} : Constructed(p, SmallDirs, SmallFiles)
       \/ Constructed(<<NDotG>>, BareDirs, BareFiles)
    /\ lister = NoListing

InitWide == Constructed(Root, WideDirs, WideFiles) /\ lister = NoListing

\* The commands that work on the loaded listing alone.
NextInMemory ==
    \/ HandleUp
    \/ HandleDown
    \/ HandleHome
    \/ HandleEnd
    \/ HandlePageUp
    \/ HandlePageDown
    \/ HandleNone
    \/ SetSearchFilter
    \/ SetSelectedIdx
    \/ SelectFile

Next ==
    \/ HandleUp
    \/ HandleDown
    \/ HandleHome
    \/ HandleEnd
    \/ HandlePageUp
    \/ HandlePageDown
    \/ HandleNone
    \/ HandleLeft
    \/ HandleRight
    \/ HandleToggleShowHidden
    \/ HandleDelete
    \/ SetCwd
    \/ SetShowHidden
    \/ SetSearchFilter
    \/ SetSelectedIdx
    \/ SelectFile
    \/ DeleteReturns
    \/ ReadDirReturns
    \/ Dropped

\* The explorer on the small disk or on the bare disk, every command.
Spec == Init /\ [][Next]_vars

\* The explorer on a listing longer than SCROLL_COUNT, the in-memory commands.
SpecWide == InitWide /\ [][NextInMemory]_vars

InitMarks == Constructed(<<NDotG>>, BareDirs, BareFiles) /\ lister = NoListing

\* Every command, the marking of paths and the rendering.
NextMarks ==
    \/ HandleUp
    \/ HandleDown
    \/ HandleHome
    \/ HandleEnd
    \/ HandlePageUp
    \/ HandlePageDown
    \/ HandleNone
    \/ HandleLeft
    \/ HandleRight
    \/ HandleToggleShowHidden
    \/ HandleDelete
    \/ SetCwd
    \/ SetShowHidden
    \/ SetSearchFilter
    \/ SetSelectedIdx
    \/ SelectFile
    \/ SetSelectedPaths
    \/ Render
    \/ DeleteReturns
    \/ ReadDirReturns
    \/ Dropped

\* The explorer started in /.g of the bare disk, with a caller that marks
\* paths and renders between the commands.
SpecMarks == InitMarks /\ [][NextMarks]_vars

\* LocalFileSystem::read_dir("/Doc") called on a directory of raw entries.
InitLister ==
    /\ Constructed(Root, SmallDirs, SmallFiles)
    /\ \E raw \in RawListings : lister = ListingOf(raw)

NextLister ==
    \/ ListerNextEntry
    \/ ListerReturns

\* One call of the lister followed entry by entry, for every directory of raw
\* entries.
SpecLister == InitLister /\ [][NextLister]_vars

\* ------------------------------------------------------------------ vocabulary of the claims

\* The explorer is between two commands and the last one returned to its caller.
Returned == pc = "idle" /\ last.result \in {"ok", "err", "true", "false"}

\* The last command returned the error of the lister's list operation.
ListFailed == pc = "idle" /\ last.result = "err" /\ last.cause = "read_dir"

\* A step that runs the in-memory command op from start to end.
Runs(op) == pc = "idle" /\ last'.op = op /\ last'.result # "pending"

\* FileExplorer::files(): the entries of the filtered view.
FilesView(ff) == [k \in 1..Len(ff) |-> ff[k][2]]

\* The filtered position of the stored selection, 0 when it is not in the view.
FilteredPos(ff, sel) ==
    IF \E k \in 1..Len(ff) : ff[k][1] = sel
    THEN (CHOOSE k \in 1..Len(ff) : ff[k][1] = sel) - 1
    ELSE 0

\* The entry at filtered position q is the one the stored index sel points to
\* in the unfiltered sequence.
StoredIndexOf(ff, fl, q, sel) ==
    /\ sel = ff[q + 1][1]
    /\ sel < Len(fl)
    /\ fl[sel + 1] = ff[q + 1][2]

\* Name n matches the search substring (every name does when there is none).
Matches(n, filter) ==
    \/ filter = None
    \/ \E k \in 0..(Len(n) - Len(filter[1])) :
          \A j \in 1..Len(filter[1]) :
             ToLowercase(n)[k + j] = ToLowercase(filter[1])[j]

\* ------------------------------------------------------------------ C1

\* C1: after every command, whether it returned Ok or an error, a non-empty
\* unfiltered sequence has the stored selected index strictly below its length.
C1_SelectedInBounds ==
    (Returned /\ files # <<>>) => selected < Len(files)

\* ------------------------------------------------------------------ C2

\* C2: when the list operation fails during Ascend, Descend, ToggleHidden,
\* SetShowHidden, DeleteCurrent or SetDirectory, the whole explorer state
\* (current directory, show-hidden flag, both sequences, selected index) equals
\* its value before the command.
C2_FailedListRestoresState ==
    (ListFailed /\ last.op \in {"Left", "Right", "ToggleShowHidden", "set_show_hidden",
                                "Delete", "set_cwd"})
        => /\ cwd = pre.cwd
           /\ show_hidden = pre.show_hidden
           /\ files = pre.files
           /\ filtered_files = pre.filtered_files
           /\ selected = pre.selected

\* ------------------------------------------------------------------ C3

\* C3: when Ascend, Descend, ToggleHidden, DeleteCurrent or SetDirectory fails
\* because the list operation fails, the displayed list files() and the
\* user-facing position selected_idx() are what they were before the command.
C3_FailedListKeepsView ==
    (ListFailed /\ last.op \in {"Left", "Right", "ToggleShowHidden", "Delete", "set_cwd"})
        => /\ FilesView(filtered_files) = FilesView(pre.filtered_files)
           /\ FilteredPos(filtered_files, selected)
                 = FilteredPos(pre.filtered_files, pre.selected)

\* A Descend failed on its list operation after it had taken the entered entry
\* out of the unfiltered sequence: the view is all that is left unchanged.
C3_Witness ==
    /\ ListFailed
    /\ last.op = "Right"
    /\ files # pre.files
    /\ Len(filtered_files) > 1

\* ------------------------------------------------------------------ C4

\* C4: at every suspension point inside a command the unfiltered sequence, the
\* filtered sequence and the selected index hold their pre-command values.
C4_SuspendedAtPreState ==
    pc \in {"read_dir", "delete"}
        => /\ files = pre.files
           /\ filtered_files = pre.filtered_files
           /\ selected = pre.selected

\* ------------------------------------------------------------------ C5

\* C5: the filtered sequence is exactly the order-preserving subsequence of the
\* unfiltered sequence whose names match the search substring: each pair (i, e)
\* has unfiltered[i] = e, the indices strictly increase, every matching index is
\* there, and it is no longer than the unfiltered sequence.
C5_FilteredIsMatchingSubsequence ==
    Returned =>
        /\ Len(filtered_files) <= Len(files)
        /\ \A k \in 1..Len(filtered_files) :
              /\ filtered_files[k][1] < Len(files)
              /\ files[filtered_files[k][1] + 1] = filtered_files[k][2]
              /\ Matches(filtered_files[k][2].name, search_filter)
        /\ \A k \in 1..(Len(filtered_files) - 1) :
              filtered_files[k][1] < filtered_files[k + 1][1]
        /\ \A i \in 1..Len(files) :
              Matches(files[i].name, search_filter)
                 => \E k \in 1..Len(filtered_files) : filtered_files[k][1] = i - 1

\* ------------------------------------------------------------------ C6

HasParentEntry == \E i \in 1..Len(files) : files[i].name = ParentName

\* C6: the unfiltered sequence contains the entry named "../" exactly when the
\* current directory has a parent; it is then at index 0 only, is a directory
\* whose path is that parent, whatever the show-hidden flag, and it is in the
\* filtered view exactly when it matches the search substring.
C6_ParentEntry ==
    Returned =>
        /\ HasParentEntry <=> IsSome(PathParent(cwd))
        /\ HasParentEntry =>
              /\ files[1].name = ParentName
              /\ \A i \in 2..Len(files) : files[i].name # ParentName
              /\ files[1].is_dir
              /\ IsSome(PathParent(cwd)) => files[1].path = Unwrap(PathParent(cwd))
              /\ (\E k \in 1..Len(filtered_files) : filtered_files[k][2].name = ParentName)
                    <=> Matches(ParentName, search_filter)

\* ------------------------------------------------------------------ C7

\* C7: with a non-empty filtered sequence of length n and the selection at
\* filtered position p, MoveDown selects the entry at filtered position
\* (p + 1) mod n and MoveUp the one at (p - 1) mod n, and the stored index is
\* the unfiltered index of that entry.
C7_MoveWraps ==
    [][(filtered_files # <<>> /\ (Runs("Up") \/ Runs("Down")))
         => LET n == Len(filtered_files)
                p == FilteredPos(filtered_files, selected)
                q == IF last'.op = "Down" THEN (p + 1) % n ELSE (p + n - 1) % n
            IN  /\ last'.result = "ok"
                /\ StoredIndexOf(filtered_files, files, q, selected')]_vars

\* ------------------------------------------------------------------ C8

Max(a, b) == IF a >= b THEN a ELSE b

\* C8: with a non-empty filtered sequence of length n and the selection at
\* filtered position p, PageUp selects filtered position max(p - 12, 0) and
\* PageDown min(p + 12, n - 1); neither wraps around.
C8_PageClamps ==
    [][(filtered_files # <<>> /\ (Runs("PageUp") \/ Runs("PageDown")))
         => LET n == Len(filtered_files)
                p == FilteredPos(filtered_files, selected)
                q == FilteredPos(filtered_files', selected')
            IN  /\ last'.op = "PageUp" => q = Max(p - 12, 0) /\ q <= p
                /\ last'.op = "PageDown" => q = Min(p + 12, n - 1) /\ q >= p
                /\ selected' = filtered_files[q + 1][1]]_vars

\* PageDown moved the selection by 12 positions and stopped short of the end.
C8_Witness ==
    /\ last.op = "PageDown"
    /\ search_filter # None
    /\ Len(filtered_files) > 13
    /\ FilteredPos(filtered_files, selected) = 12
    /\ selected # 12

\* ------------------------------------------------------------------ C9

\* C9: MoveHome sets the stored selection to the unfiltered index of the first
\* filtered entry and MoveEnd to that of the last, whatever the selection was.
C9_HomeEnd ==
    [][(filtered_files # <<>> /\ (Runs("Home") \/ Runs("End")))
         => LET q == IF last'.op = "Home" THEN 0 ELSE Len(filtered_files) - 1
            IN  StoredIndexOf(filtered_files, files, q, selected')]_vars

\* ------------------------------------------------------------------ C10

Movements == {"Up", "Down", "Home", "End", "PageUp", "PageDown"}

\* C10: with an empty filtered sequence each movement command returns Ok and
\* leaves the whole state, the stored selected index included, unchanged.
C10_EmptyViewNoOp ==
    [][(filtered_files = <<>> /\ \E m \in Movements : Runs(m))
         => /\ last'.result = "ok"
            /\ UNCHANGED explorer
            /\ UNCHANGED <<dirs, disk>>]_vars

\* A movement command has run on a view that a search substring emptied while
\* the stored selection was not 0.
C10_Witness ==
    /\ last.op \in Movements
    /\ last.result = "ok"
    /\ filtered_files = <<>>
    /\ files # <<>>
    /\ selected > 0

\* ------------------------------------------------------------------ C11

\* C11: selected_idx() is the position in the filtered sequence of the pair
\* whose original index is the stored selection, or 0 when the stored selection
\* is not in the filtered view; with no search substring it is the stored
\* unfiltered index itself.
C11_SelectedIdxIsFilteredPosition ==
    Returned =>
        LET q == SelectedIdx(filtered_files, selected)
            inView == \E k \in 1..Len(filtered_files) : filtered_files[k][1] = selected
        IN  /\ inView => (q < Len(filtered_files) /\ filtered_files[q + 1][1] = selected)
            /\ ~inView => q = 0
            /\ search_filter = None => q = selected

\* ------------------------------------------------------------------ C12

\* C12: set_search_filter(None), in whatever state it is applied, makes the
\* filtered sequence the unfiltered sequence: the same length, the same entries
\* in the same order, each paired with its own index.
C12_NoFilterShowsAll ==
    [][(Runs("set_search_filter") /\ last'.arg = Some(None))
         => /\ Len(filtered_files') = Len(files')
            /\ \A k \in 1..Len(files') : filtered_files'[k] = <<k - 1, files'[k]>>]_vars

\* The search substring was cleared in a state where the stored selection lies
\* beyond the unfiltered sequence.
C12_Witness ==
    /\ last.op = "set_search_filter"
    /\ last.arg = Some(None)
    /\ Len(filtered_files) > 1
    /\ selected >= Len(files)

\* ------------------------------------------------------------------ C13

\* C13: set_search_filter changes the search substring and the filtered
\* sequence only: it returns without suspending on the lister and leaves the
\* stored selected index, the unfiltered sequence, the current directory, the
\* show-hidden flag and the disk as they were.
C13_SearchFilterFrame ==
    [][Runs("set_search_filter")
         => /\ last'.result = "ok"
            /\ pc' = "idle"
            /\ UNCHANGED <<selected, files, cwd, show_hidden, scroll_offset,
                           selected_paths>>
            /\ UNCHANGED <<call, dirs, disk>>]_vars

\* A search substring was set that hides the selected entry: the stored
\* selection stays on it.
C13_Witness ==
    /\ last.op = "set_search_filter"
    /\ search_filter # None
    /\ filtered_files # <<>>
    /\ selected > 0
    /\ \A k \in 1..Len(filtered_files) : filtered_files[k][1] # selected

\* ------------------------------------------------------------------ C14

\* A step in which the suspended command op returns Ok.
Succeeds(op) == pc = "read_dir" /\ last.op = op /\ last'.result = "ok"

\* C14: when the current directory has a parent, Ascend calls the lister and,
\* when it succeeds, the current directory is that parent, the unfiltered
\* sequence is the parent's listing and the stored selection is on the entry
\* named after the departed directory with "/" appended, or is 0 when no such
\* entry is listed; when the current directory has no parent, Ascend changes
\* nothing and does not call the lister.
C14_Ascend ==
    [][/\ (pc = "idle" /\ last'.op = "Left")
             => IF IsSome(PathParent(cwd))
                THEN pc' = "read_dir"
                ELSE /\ last'.result = "ok"
                     /\ pc' = "idle"
                     /\ UNCHANGED explorer
                     /\ UNCHANGED <<call, dirs, disk>>
       /\ Succeeds("Left")
             => LET departed == pre.cwd[Len(pre.cwd)] \o Slash
                IN  /\ pre.cwd # Root
                    /\ cwd' = SubSeq(pre.cwd, 1, Len(pre.cwd) - 1)
                    /\ files' = LoadedFiles(ReadDir(cwd', dirs, disk), cwd', show_hidden)
                    /\ IF \E i \in 1..Len(files') : files'[i].name = departed
                       THEN /\ selected' < Len(files')
                            /\ files'[selected' + 1].name = departed
                       ELSE selected' = 0]_vars

\* An Ascend has returned Ok with the selection on the departed directory's
\* entry, which is not the first of the parent's listing.
C14_Witness ==
    /\ pc = "idle"
    /\ last.op = "Left"
    /\ last.result = "ok"
    /\ cwd # Root
    /\ selected > 0
    /\ files[selected + 1].is_dir
    /\ PathParent(files[selected + 1].path) = Some(cwd)

\* ------------------------------------------------------------------ C15

\* C15: when a Descend into a listed directory entry D other than "../", made
\* with no search substring from the current directory C, returned Ok and the
\* Ascend that follows it returns Ok, the current directory is C again and the
\* stored selection is on the entry D.
C15_DescendAscend ==
    [][(/\ Succeeds("Left")
        /\ prior.op = "Right"
        /\ prior.search_filter = None
        /\ prior.files[prior.selected + 1].name # ParentName)
         => /\ cwd' = prior.cwd
            /\ selected' < Len(files')
            /\ files'[selected' + 1] = prior.files[prior.selected + 1]]_vars

\* ------------------------------------------------------------------ C16

\* C16: when an Ascend from a current directory C that has a parent returned Ok
\* and the Descend that follows it returns Ok, the current directory is C again.
C16_AscendDescend ==
    [][(Succeeds("Right") /\ prior.op = "Left") => cwd' = prior.cwd]_vars

\* The listing fl has the entry that Ascend looks for when it leaves directory
\* c: c does not end in ".." and fl has an entry named c's last component
\* followed by "/".
ListsDeparted(fl, c) ==
    /\ c # Root
    /\ c[Len(c)] # DotDot
    /\ \E i \in 1..Len(fl) : fl[i].name = c[Len(c)] \o Slash

\* C16, amended: when an Ascend from C returned Ok with an unfiltered sequence
\* that lists C's own entry (C does not end in "..", and is not hidden while
\* hidden entries are left out) and the Descend that follows it returns Ok, the
\* current directory is C again.
C16_AscendDescendListed ==
    [][(Succeeds("Right") /\ prior.op = "Left" /\ ListsDeparted(pre.files, prior.cwd))
         => cwd' = prior.cwd]_vars

\* The Descend that follows an Ascend from a listed directory other than the
\* first entry is back in that directory and its list call is about to return.
C16_Witness ==
    /\ pc = "read_dir"
    /\ last.op = "Right"
    /\ prior.op = "Left"
    /\ ListsDeparted(pre.files, prior.cwd)
    /\ pre.selected > 0
    /\ cwd = prior.cwd
    /\ ReadDirOk(cwd, dirs)

\* ------------------------------------------------------------------ C17

\* C17: Descend on a selected entry that is a directory calls the lister and,
\* when it succeeds, the current directory is that entry's path, both sequences
\* are the reloaded ones and the stored selection is 0; on a selected entry that
\* is not a directory it changes nothing and does not call the lister.
C17_Descend ==
    [][/\ (pc = "idle" /\ last'.op = "Right" /\ selected < Len(files))
             => IF files[selected + 1].is_dir
                THEN pc' = "read_dir"
                ELSE /\ last'.result = "ok"
                     /\ pc' = "idle"
                     /\ UNCHANGED explorer
                     /\ UNCHANGED <<call, dirs, disk>>
       /\ Succeeds("Right")
             => /\ pre.selected < Len(pre.files)
                /\ pre.files[pre.selected + 1].is_dir
                /\ cwd' = pre.files[pre.selected + 1].path
                /\ files' = LoadedFiles(ReadDir(cwd', dirs, disk), cwd', show_hidden)
                /\ filtered_files' = ComputeFilteredFiles(files', search_filter)
                /\ selected' = 0]_vars

\* A Descend into a listed directory that was not the first entry has returned
\* Ok.
C17_Witness ==
    /\ pc = "idle"
    /\ last.op = "Right"
    /\ last.result = "ok"
    /\ prior.op = "Right"
    /\ prior.selected > 0
    /\ cwd = prior.files[prior.selected + 1].path
    /\ PathParent(cwd) = Some(prior.cwd)
    /\ selected = 0

\* ------------------------------------------------------------------ C18

\* C18: DeleteCurrent on a selected entry that is a directory, "../" included,
\* returns Ok without calling the lister's delete or list operation and leaves
\* the explorer and the disk as they were.
C18_DeleteDirectoryNoOp ==
    [][(pc = "idle" /\ last'.op = "Delete" /\ selected < Len(files)
                    /\ files[selected + 1].is_dir)
         => /\ last'.result = "ok"
            /\ pc' = "idle"
            /\ UNCHANGED explorer
            /\ UNCHANGED <<call, dirs, disk>>]_vars

\* DeleteCurrent has returned Ok on the selected "../" with the file of that
\* directory still on the disk.
C18_Witness ==
    /\ pc = "idle"
    /\ last.op = "Delete"
    /\ last.result = "ok"
    /\ selected < Len(files)
    /\ files[selected + 1].name = ParentName
    /\ \E i \in 1..Len(files) : ~files[i].is_dir /\ files[i].path \in disk

\* ------------------------------------------------------------------ C19

\* C19: DeleteCurrent on a selected entry that is not a directory calls the
\* lister's delete on that entry's path and, when delete and list succeed, the
\* unfiltered sequence is the reloaded one and the stored selection is what it
\* was when that is below the new length, otherwise the new last index, or 0
\* when the reloaded sequence is empty.
C19_DeleteSucceeds ==
    [][/\ (pc = "idle" /\ last'.op = "Delete" /\ selected < Len(files)
                       /\ ~files[selected + 1].is_dir)
             => /\ pc' = "delete"
                /\ call'.file_path = files[selected + 1].path
       /\ (pc = "delete" /\ pc' = "read_dir")
             => disk' = disk \ {Resolve(call.file_path)}
       /\ Succeeds("Delete")
             => /\ files' = LoadedFiles(ReadDir(cwd, dirs, disk), cwd, show_hidden)
                /\ selected' = IF pre.selected < Len(files') THEN pre.selected
                               ELSE IF files' = <<>> THEN 0
                               ELSE Len(files') - 1]_vars

\* ------------------------------------------------------------------ C20

\* The names of a sequence of entries, in order.
Names(fl) == [k \in 1..Len(fl) |-> fl[k].name]

\* C20: when a ToggleHidden returned Ok and the ToggleHidden that follows it
\* returns Ok, the disk being what it was, the show-hidden flag and the names of
\* the unfiltered sequence, in order, are what they were before the first one.
C20_ToggleTwice ==
    [][(Succeeds("ToggleShowHidden") /\ prior.op = "ToggleShowHidden")
         => /\ show_hidden' = prior.show_hidden
            /\ Names(files') = Names(prior.files)]_vars

\* ------------------------------------------------------------------ C21

\* C21: set_cwd(path) makes path the current directory before anything is known
\* about it and calls the lister; when it returns Ok the current directory is
\* path, both sequences are the listing of path and the stored selection is 0.
C21_SetDirectory ==
    [][/\ (pc = "idle" /\ last'.op = "set_cwd")
             => /\ cwd' = Unwrap(last'.arg)
                /\ pc' = "read_dir"
       /\ Succeeds("set_cwd")
             => /\ cwd' = Unwrap(last.arg)
                /\ files' = LoadedFiles(ReadDir(cwd', dirs, disk), cwd', show_hidden)
                /\ filtered_files' = ComputeFilteredFiles(files', search_filter)
                /\ selected' = 0]_vars

\* set_cwd("/Doc/..") has returned Ok: the path is the current directory as it
\* was given, with the root's entries under it.
C21_Witness ==
    /\ pc = "idle"
    /\ last.op = "set_cwd"
    /\ last.result = "ok"
    /\ cwd = <<NDoc, DotDot>>
    /\ Len(files) > 1
    /\ files[2].path = <<NDoc, DotDot, NDoc>>
    /\ selected = 0

\* ------------------------------------------------------------------ C22

\* C22: select_file(name) looks for name in the unfiltered sequence, whatever
\* the filtered view shows: when an entry has exactly that name it returns true
\* with the stored selection on the first such entry, otherwise it returns false
\* and the explorer is unchanged; either way it does not call the lister.
C22_SelectByName ==
    [][Runs("select_file")
         => LET name == Unwrap(last'.arg)
            IN  /\ pc' = "idle"
                /\ UNCHANGED <<call, dirs, disk>>
                /\ IF \E i \in 1..Len(files) : files[i].name = name
                   THEN /\ last'.result = "true"
                        /\ selected' < Len(files)
                        /\ files[selected' + 1].name = name
                        /\ \A j \in 1..selected' : files[j].name # name
                        /\ UNCHANGED <<cwd, files, filtered_files, show_hidden,
                                       search_filter, scroll_offset, selected_paths>>
                   ELSE /\ last'.result = "false"
                        /\ UNCHANGED explorer]_vars

\* select_file has found an entry that the search substring keeps out of the
\* filtered view.
C22_Witness ==
    /\ last.op = "select_file"
    /\ last.result = "true"
    /\ search_filter # None
    /\ selected > 0
    /\ selected < Len(files)
    /\ files[selected + 1].name = Unwrap(last.arg)
    /\ \A k \in 1..Len(filtered_files) : filtered_files[k][1] # selected

\* ------------------------------------------------------------------ C23

DirsFirstByName(a, b) ==
    \/ a.is_dir /\ ~b.is_dir
    \/ a.is_dir = b.is_dir /\ StrLess(a.name, b.name)

\* C24: with the lister sorting directories first and then by name, the
\* unfiltered sequence installed by a successful reload has "../" at index 0
\* when the current directory has a parent, and after it entries that the lister
\* returned, the directories in name order before the non-directories in name
\* order.
C24_ReloadKeepsOrder ==
    [][(pc = "read_dir" /\ last'.result = "ok")
         => LET hasParent == cwd' # Root
                rest == IF hasParent THEN Tail(files') ELSE files'
                listed == ReadDir(cwd', dirs, disk)
            IN  /\ hasParent => (files' # <<>> /\ files'[1].name = ParentName)
                /\ \A i \in 1..Len(rest) :
                      \E k \in 1..Len(listed) : listed[k] = rest[i]
                /\ \A i \in 1..Len(rest) : \A j \in (i + 1)..Len(rest) :
                      DirsFirstByName(rest[i], rest[j])]_vars

\* A reload has installed "../", a directory and a non-directory, in this order.
C24_Witness ==
    /\ pc = "idle"
    /\ last.result = "ok"
    /\ last.op \in {"Left", "Right", "set_cwd", "ToggleShowHidden", "set_show_hidden"}
    /\ prior.op # "none" \/ last.op \in {"set_cwd", "set_show_hidden"}
    /\ Len(files) = 3
    /\ files[1].name = ParentName
    /\ files[2].is_dir
    /\ ~files[3].is_dir

\* ------------------------------------------------------------------ C25

\* C25: the marked-path set changes only in set_selected_paths and the scroll
\* offset only in a rendering: handle(), set_cwd, set_show_hidden,
\* set_search_filter, select_file and set_selected_idx leave both as they were,
\* whether they return Ok or an error; and is_file_selected is membership of the
\* entry's path in the marked set, so that marked paths that match no entry of
\* the listing make it true of no entry.
C25_MarksAndScrollFrame ==
    [][/\ selected_paths' # selected_paths
             => (pc = "idle" /\ last'.op = "set_selected_paths")
       /\ scroll_offset' # scroll_offset
             => (pc = "idle" /\ last'.op = "render")
       /\ \A k \in 1..Len(files') :
             IsFileSelected(selected_paths', files'[k])
                <=> \E m \in selected_paths' : m = files'[k].path
       /\ (\A m \in selected_paths' : \A k \in 1..Len(files') : files'[k].path # m)
             => \A k \in 1..Len(files') : ~IsFileSelected(selected_paths', files'[k])]_vars

\* An Ascend has returned Ok in a directory where the marked path matches no
\* entry, below a scrolled table.
C25_Witness ==
    /\ pc = "idle"
    /\ last.op = "Left"
    /\ last.result = "ok"
    /\ prior.op = "Left"
    /\ files # <<>>
    /\ selected_paths # {}
    /\ \A m \in selected_paths : \A k \in 1..Len(files) : files[k].path # m
    /\ scroll_offset > 0

\* ------------------------------------------------------------------ C26

\* The commands that work on what is in memory.
InMemory ==
    Movements \cup {"None", "set_search_filter", "select_file", "set_selected_idx"}

\* C26: the movement commands, None, set_search_filter, select_file and
\* set_selected_idx end in the step they start in, without suspending on the
\* lister and without returning an error; they leave the disk alone and change
\* of the explorer at most the stored selected index, set_search_filter also the
\* substring and the filtered view, and None nothing.
C26_InMemoryCommands ==
    [][(pc = "idle" /\ last'.op \in InMemory)
         => /\ pc' \in {"idle", "panicked"}
            /\ last'.result \in {"ok", "true", "false", "panic"}
            /\ UNCHANGED <<call, dirs, disk>>
            /\ UNCHANGED <<cwd, files, show_hidden, scroll_offset, selected_paths>>
            /\ last'.op # "set_search_filter" => UNCHANGED <<search_filter, filtered_files>>
            /\ last'.op \in Movements \cup {"None"} => last'.result = "ok"
            /\ last'.op = "None" => UNCHANGED explorer]_vars

\* Input::None has been handled in a state left by a command that failed in the
\* lister, with a search substring set and the selection off the first entry.
C26_Witness ==
    /\ pc = "idle"
    /\ last.op = "None"
    /\ last.result = "ok"
    /\ failures > 0
    /\ search_filter # None
    /\ selected > 0

\* ------------------------------------------------------------------ C27

\* The file type, the link target or the metadata of raw entry e cannot be
\* read: the operation fails or outlasts its 2 seconds.
Unreadable(e) ==
    \/ TimeoutOp(e.file_type).res # "ok"
    \/ e.is_symlink /\ TimeoutOp(e.read_link).res # "ok"
    \/ TimeoutOp(e.metadata).res # "ok"

\* Raw entry e is unreadable or slow: one of its operations takes time.
Troubled(e) ==
    \/ Unreadable(e)
    \/ e.file_type.ticks > 0
    \/ e.read_link.ticks > 0
    \/ e.metadata.ticks > 0

\* The lister's call has returned.
Listed == lister.result \in {"ok", "timed_out"}

\* C27: when at most one entry of the directory is unreadable or slow, read_dir
\* returns Ok with exactly the entries whose file type, link target and metadata
\* could be read: the unreadable entry is skipped and the 5-second timeout
\* around the per-entry 2-second timeouts does not fail the listing.
C27_UnreadableEntrySkipped ==
    (/\ Listed
     /\ Cardinality({i \in 1..Len(lister.raw) : Troubled(lister.raw[i])}) <= 1)
        => /\ lister.result = "ok"
           /\ {lister.entries[i].path : i \in 1..Len(lister.entries)}
                 = {PathJoin(ListedPath, lister.raw[i].name) :
                       i \in {j \in 1..Len(lister.raw) : ~Unreadable(lister.raw[j])}}

\* ------------------------------------------------------------------ C28

C29_CurrentIsHighlighted ==
    (Returned /\ filtered_files # <<>>)
        => /\ selected < Len(files)
           /\ files[selected + 1]
                 = FilesView(filtered_files)[SelectedIdx(filtered_files, selected) + 1]

\* ------------------------------------------------------------------ C30

\* Entry e is one of the entries of the filtered view.
InView(e) == \E k \in 1..Len(filtered_files) : filtered_files[k][2] = e

\* C30: the directory a Descend enters and the file a DeleteCurrent deletes are
\* entries of the filtered view, never entries that the search substring hides.
C30_ActsOnVisibleEntry ==
    [][/\ (pc = "idle" /\ last'.op = "Right" /\ pc' = "read_dir")
             => \E i \in 1..Len(files) :
                   /\ files[i].path = cwd'
                   /\ InView(files[i])
       /\ (pc = "idle" /\ last'.op = "Delete" /\ pc' = "delete")
             => \E i \in 1..Len(files) :
                   /\ files[i].path = call'.file_path
                   /\ InView(files[i])]_vars

\* ------------------------------------------------------------------ C31

\* C31: with the unfiltered sequence empty, Descend and DeleteCurrent return Ok
\* without indexing the sequence (no panic) and leave the explorer and the disk
\* as they were.
C31_EmptySequenceGuarded ==
    [][(pc = "idle" /\ files = <<>> /\ last'.op \in {"Right", "Delete"})
         => /\ last'.result = "ok"
            /\ pc' = "idle"
            /\ UNCHANGED explorer
            /\ UNCHANGED <<call, dirs, disk>>]_vars

\* ------------------------------------------------------------------ C32

\* C32: when the lister's delete fails during DeleteCurrent, the command returns
\* that error without calling the list operation, and the whole explorer state
\* is what it was when the command started.
C32_FailedDeleteKeepsState ==
    [][(pc = "delete" /\ last'.result = "err")
         => /\ last'.op = "Delete"
            /\ last'.cause = "delete"
            /\ pc' = "idle"
            /\ Snapshot' = pre]_vars

\* DeleteCurrent has returned the error of a delete that failed on a file that
\* is still on the disk, with the selection on that file.
C32_Witness ==
    /\ pc = "idle"
    /\ last.op = "Delete"
    /\ last.result = "err"
    /\ last.cause = "delete"
    /\ selected > 0
    /\ selected < Len(files)
    /\ ~files[selected + 1].is_dir
    /\ files[selected + 1].path \in disk
    /\ Snapshot = pre

\* ------------------------------------------------------------------ C33

\* C33: a ToggleHidden that returns Ok has negated the show-hidden flag and a
\* set_show_hidden(b) that returns Ok has set it to b; both have reloaded the
\* unfiltered and the filtered sequence from the lister and set the stored
\* selection to 0, and set_show_hidden calls the lister even when b is the
\* value the flag already has.
C33_ShowHidden ==
    [][/\ (pc = "idle" /\ last'.op \in {"ToggleShowHidden", "set_show_hidden"})
             => pc' = "read_dir"
       /\ (Succeeds("ToggleShowHidden") \/ Succeeds("set_show_hidden"))
             => /\ show_hidden' = IF last.op = "ToggleShowHidden"
                                  THEN ~pre.show_hidden ELSE Unwrap(last.arg)
                /\ files' = LoadedFiles(ReadDir(cwd, dirs, disk), cwd, show_hidden')
                /\ filtered_files' = ComputeFilteredFiles(files', search_filter)
                /\ selected' = 0]_vars

\* set_show_hidden was called with the value the flag already has while the
\* selection was off the first entry, and its list call is about to return.
C33_Witness ==
    /\ pc = "read_dir"
    /\ last.op = "set_show_hidden"
    /\ Unwrap(last.arg) = pre.show_hidden
    /\ show_hidden = pre.show_hidden
    /\ pre.selected > 0
    /\ ReadDirOk(cwd, dirs)

\* ------------------------------------------------------------------ C34

\* C34: between commands, when the show-hidden flag is false no entry of the
\* unfiltered sequence, and so none of the filtered view, has its hidden flag
\* set.
C34_HiddenLeftOut ==
    (Returned /\ ~show_hidden)
        => /\ \A i \in 1..Len(files) : ~files[i].is_hidden
           /\ \A k \in 1..Len(filtered_files) : ~filtered_files[k][2].is_hidden

\* ------------------------------------------------------------------ C35

\* The directory command f.op was to make current, started from the state f.
TargetCwd(f) ==
    IF f.op = "Left" THEN SubSeq(f.cwd, 1, Len(f.cwd) - 1)
    ELSE IF f.op = "Right" THEN f.files[f.selected + 1].path
    ELSE IF f.op = "set_cwd" THEN Unwrap(f.arg)
    ELSE f.cwd

\* The show-hidden flag command f.op was to leave, started from the state f.
TargetShowHidden(f) ==
    IF f.op = "ToggleShowHidden" THEN ~f.show_hidden ELSE f.show_hidden

\* C35: when Ascend, Descend, ToggleHidden or set_cwd returned the error of its
\* list call and the same command, issued again next, returns Ok, the explorer
\* is in the state the first attempt was to reach: the directory and the flag
\* the first attempt was aiming at, their listing, and the selection on the
\* departed directory's entry after an Ascend and 0 otherwise.
C35_RetryAsFirstAttempt ==
    [][(/\ failed.op \in Retried
        /\ last'.op = failed.op
        /\ last'.arg = failed.arg
        /\ last'.result = "ok")
         => LET c == TargetCwd(failed)
                h == TargetShowHidden(failed)
                departed == failed.cwd[Len(failed.cwd)] \o Slash
            IN  /\ cwd' = c
                /\ show_hidden' = h
                /\ files' = LoadedFiles(ReadDir(c, dirs, disk), c, h)
                /\ filtered_files' = ComputeFilteredFiles(files', failed.search_filter)
                /\ IF failed.op = "Left"
                      /\ \E i \in 1..Len(files') : files'[i].name = departed
                   THEN /\ selected' < Len(files')
                        /\ files'[selected' + 1].name = departed
                   ELSE selected' = 0]_vars

\* ------------------------------------------------------------------ C36

\* C36: a command calls the lister's list operation at most once and its delete
\* operation at most once, and when either call fails the command returns that
\* error at once: it does not call the lister again.
C36_OneCallEach ==
    [][/\ call'.lists <= 1
       /\ call'.deletes <= 1
       /\ (pc \in {"read_dir", "delete"} /\ last'.result = "err")
             => /\ last'.cause = pc
                /\ pc' = "idle"
                /\ call' = NoCall
       /\ (pc = "delete" /\ pc' = "read_dir") => last'.result = "pending"]_vars

\* A DeleteCurrent has deleted its file and is suspended in its one list call.
C36_Witness ==
    /\ pc = "read_dir"
    /\ last.op = "Delete"
    /\ call.deletes = 1
    /\ call.lists = 1
    /\ call.file_path \notin disk

\* ------------------------------------------------------------------ C37

\* C37: after a movement command or a set_selected_idx that ran to its end on a
\* non-empty filtered view, the stored selected index is the original index of
\* one of the pairs of the view, also when the stored selection was not in the
\* view before the command.
C37_CursorOnVisibleEntry ==
    [][(/\ filtered_files # <<>>
        /\ \/ \E m \in Movements : Runs(m)
           \/ Runs("set_selected_idx") /\ last'.result = "ok")
         => /\ last'.result = "ok"
            /\ \E k \in 1..Len(filtered_files') : filtered_files'[k][1] = selected']_vars

\* A movement command has run on a view that did not hold the stored selection
\* and has left the selection on an entry of the view other than the first of
\* the unfiltered sequence.
C37_Witness ==
    /\ pc = "idle"
    /\ last.op \in Movements
    /\ last.arg = None
    /\ search_filter # None
    /\ selected > 0
    /\ \E k \in 1..Len(filtered_files) :
          /\ filtered_files[k][1] = selected
          /\ selected < Len(files)
          /\ files[selected + 1] = filtered_files[k][2]

\* ------------------------------------------------------------------ C38

\* C38: a Descend on the entry "../" that returns Ok ends in the directory an
\* Ascend from the same state ends in, the parent of the current directory,
\* with the same unfiltered and filtered sequences, the listing of that parent,
\* and with the stored selection 0 rather than on the departed directory.
C38_DescendOnParentEntry ==
    [][(/\ Succeeds("Right")
        /\ pre.selected < Len(pre.files)
        /\ pre.files[pre.selected + 1].name = ParentName)
         => /\ IsSome(PathParent(pre.cwd))
            /\ cwd' = Unwrap(PathParent(pre.cwd))
            /\ files' = LoadedFiles(ReadDir(cwd', dirs, disk), cwd', show_hidden)
            /\ filtered_files' = ComputeFilteredFiles(files', search_filter)
            /\ selected' = 0]_vars

\* ------------------------------------------------------------------ C39

\* C39: the entries LocalFileSystem::read_dir returns are the entries it read,
\* every directory before every non-directory and, within each of the two
\* kinds, in ascending order of the name, compared with the "/" that a
\* directory's name ends in.
C39_ListingSorted ==
    lister.result = "ok" =>
        /\ Len(lister.entries) = Len(lister.temp)
        /\ \A i \in 1..Len(lister.temp) :
              \E k \in 1..Len(lister.entries) : lister.entries[k] = lister.temp[i]
        /\ \A i \in 1..Len(lister.entries) : \A j \in (i + 1)..Len(lister.entries) :
              DirsFirstByName(lister.entries[i], lister.entries[j])

\* A listing read the directories "r" and "r.d" in this order and returned
\* "r.d/" before "r/".
C39_Witness ==
    /\ lister.result = "ok"
    /\ Len(lister.entries) = 2
    /\ lister.raw[1].name = NR
    /\ lister.entries[1].is_dir
    /\ lister.entries[2].is_dir
    /\ lister.entries[1].name = NRd \o Slash
    /\ lister.entries[2].name = NR \o Slash

====
